---- MODULE Spec2Model ----
(***************************************************************************)
(* Streaming response pipeline of basic_agent_chat_loop:                   *)
(* ResponseStreamer.stream_agent_response, its thinking-indicator task,    *)
(* the ResponseRenderer, and the session accumulators it updates.          *)
(*                                                                         *)
(* One query is one run of the coroutine stream_agent_response.  asyncio   *)
(* is single-threaded and cooperative: the indicator task runs only while  *)
(* the coroutine is suspended at an await, so each action below is the     *)
(* code between two suspension points.                                     *)
(***************************************************************************)
EXTENDS Integers, Sequences, FiniteSets, TLC

\* ---------------------------------------------------------------- bounds
MaxQueries   == 2      \* queries per session
MaxFragments == 2      \* text fragments one stream yields
MaxTok       == 2      \* largest token count a payload reports
MaxWrites    == 3      \* writes to one SmartStdoutFilter
MaxText      == 2      \* characters of one written text

\* ------------------------------------------------------------------ text
\* A string is a sequence of characters.  A channel tag or a section label
\* is one character of the model.
Chars == {"a", " ", "\n", "<final>", "</final>", "<reasoning>",
          "</reasoning>", "[REASONING]", "[RESPONSE]"}

Whitespace == {" ", "\n"}

RECURSIVE Join(_)
\* "".join(parts)
Join(parts) == IF parts = <<>> THEN <<>> ELSE Head(parts) \o Join(Tail(parts))

RECURSIVE lstrip(_)
lstrip(text) ==
    IF text # <<>> /\ Head(text) \in Whitespace THEN lstrip(Tail(text)) ELSE text

RECURSIVE rstrip(_)
rstrip(text) ==
    IF text # <<>> /\ text[Len(text)] \in Whitespace
    THEN rstrip(SubSeq(text, 1, Len(text) - 1)) ELSE text

\* text.strip()
strip(text) == rstrip(lstrip(text))

\* not text.strip()
IsBlank(text) == strip(text) = <<>>

RECURSIVE join_lines(_)
\* "\n".join(lines)
join_lines(lines) ==
    IF lines = <<>> THEN <<>>
    ELSE IF Len(lines) = 1 THEN lines[1]
    ELSE lines[1] \o <<"\n">> \o join_lines(Tail(lines))

\* Optional[str]
Some(t) == [some |-> TRUE, val |-> t]
Nothing == [some |-> FALSE, val |-> <<>>]

\* The texts events and responses carry: empty or visible.
Texts == { <<>>, <<"a">> }

\* -------------------------------------------------------- output_mode.py
STREAMING == "streaming"
BUFFERING == "buffering"

\* A rule that looks at the console only.
determine_output_state_console(console, harmony_processor_) ==
    IF console THEN BUFFERING ELSE STREAMING

determine_output_state(console, harmony_processor_) ==
    IF console \/ harmony_processor_ THEN BUFFERING ELSE STREAMING

should_buffer(output_state) == output_state = BUFFERING

\* ------------------------------------------------------ stream events
\* An event of the agent's stream: a plain string (`text` is the string), a
\* mapping (`nested` is event.contentBlockDelta.delta.text, `text` the
\* "text" key, `data` and `delta` further keys) or an object (`data`,
\* `delta` and `text` are its attributes, each a string when present).
StrEvent(t) ==
    [shape |-> "str", text |-> Some(t), nested |-> Nothing, data |-> Nothing,
     delta |-> Nothing]

\* An object without any of the attributes the parser knows.
NoEvent ==
    [shape |-> "object", text |-> Nothing, nested |-> Nothing,
     data |-> Nothing, delta |-> Nothing]

\* Events that match more than one shape; the text of the shape that
\* comes first is visible, the other is a blank.
AmbiguousEvents ==
    { [NoEvent EXCEPT !.data = Some(<<"a">>), !.delta = Some(<<" ">>)],
      [NoEvent EXCEPT !.delta = Some(<<"a">>), !.text = Some(<<" ">>)],
      [NoEvent EXCEPT !.shape = "mapping", !.text = Some(<<"a">>),
                      !.data = Some(<<" ">>)],
      [NoEvent EXCEPT !.shape = "mapping", !.nested = Some(<<"a">>),
                      !.text = Some(<<" ">>)] }

Events == {StrEvent(t) : t \in Texts} \cup {NoEvent} \cup AmbiguousEvents

\* What the last event / response carries for the processor: no provider
\* tokens, tokens the encoding fails to parse, or tokens it parses into
\* messages.
NoTokens == [tokens |-> "none", messages |-> <<>>]

HarmonyMetadata ==
    { NoTokens,
      [tokens |-> "unparseable", messages |-> <<>>],
      [tokens |-> "parsed",
       messages |-> << [channel |-> "reasoning", content |-> <<"a">>],
                       [channel |-> "final", content |-> <<"a">>] >>] }

\* Texts with channel tags: an empty final channel, a filled one.
TaggedTexts == { <<"<final>", "</final>">>, <<"<final>", "a", "</final>">> }

\* The events of an agent that writes channel tags.
TaggedEvents == {StrEvent(t) : t \in TaggedTexts}

\* A parser that looks at the attributes from the last rule to the first.
parse_event_last_first(event) ==
    IF event.shape = "str" THEN event.text
    ELSE IF event.text.some THEN event.text
    ELSE IF event.delta.some THEN event.delta
    ELSE IF event.data.some THEN event.data
    ELSE event.nested

\* StreamingEventParser.parse_event: plain string; mapping with the nested
\* contentBlockDelta text; mapping with a "text" key; `data`; `delta`;
\* `text` attribute; else None.
parse_event(event) ==
    IF event.shape = "str" THEN event.text
    ELSE IF event.shape = "mapping"
    THEN (IF event.nested.some THEN event.nested ELSE event.text)
    ELSE IF event.data.some THEN event.data
    ELSE IF event.delta.some THEN event.delta
    ELSE event.text

\* The single response of a non-streaming agent: a plain string, or an
\* object with message["content"] a list of blocks.
Responses ==
    [shape : {"str"}, blocks : {<<t>> : t \in Texts}]
        \cup [shape : {"content_list"}, blocks : {<<>>, << <<"a">> >>}]

\* The responses of an agent whose answers are all the same text.
PlainResponses == { [shape |-> "str", blocks |-> << <<"a">> >>] }

\* ----------------------------------------------------------- usage
\* What the usage extractor finds in the last event / response: the kind
\* of the payload and its two counts as the provider wrote them, a decimal
\* numeral or a value int() does not take.
Numerals == {ToString(n) : n \in 0..MaxTok}

Uncoercible == {"invalid", "None"}

NoPayload == [kind |-> "none", input |-> "0", output |-> "0"]

\* The payloads of an agent that reports no usage or one fixed per-turn usage.
FewPayloads == { NoPayload, [kind |-> "usage", input |-> "1", output |-> "1"] }

\* The payloads of an agent that also reports cumulative usage, and per-turn
\* usage with counts that are no numbers.
UsagePayloads ==
    FewPayloads
        \cup [kind : {"accumulated"}, input : Numerals, output : Numerals]
        \cup {[kind |-> "usage", input |-> v, output |-> v] : v \in Uncoercible}

NoUsage == [some |-> FALSE, input_tokens |-> 0, output_tokens |-> 0,
            is_accumulated |-> FALSE]

\* int(value): the number a numeral stands for, or a failure.
to_int(value) ==
    IF value \in Numerals
    THEN [some |-> TRUE, val |-> CHOOSE n \in 0..MaxTok : ToString(n) = value]
    ELSE [some |-> FALSE, val |-> 0]

\* An extractor that returns the record it finds, zeros included.
extract_token_usage_zero_record(payload) ==
    IF payload.kind = "none" THEN NoUsage
    ELSE [some |-> TRUE, input_tokens |-> to_int(payload.input).val,
          output_tokens |-> to_int(payload.output).val,
          is_accumulated |-> (payload.kind = "accumulated")]

\* UsageExtractor.extract_token_usage: None when nothing is found, a count
\* cannot be coerced, or both counts are zero; else (usage_info,
\* is_accumulated).
extract_token_usage(payload) ==
    LET input_tokens == to_int(payload.input)
        output_tokens == to_int(payload.output)
    IN  IF \/ payload.kind = "none"
           \/ ~input_tokens.some \/ ~output_tokens.some
           \/ (input_tokens.val = 0 /\ output_tokens.val = 0)
        THEN NoUsage
        ELSE [some |-> TRUE, input_tokens |-> input_tokens.val,
              output_tokens |-> output_tokens.val,
              is_accumulated |-> (payload.kind = "accumulated")]

\* ----------------------------------------------------------- state
VARIABLES
    renderer,          \* ResponseRenderer: console, harmony_processor, output_state
    streamer,          \* ResponseStreamer: flags and its own token totals
    harmony_processor, \* HarmonyProcessor: show_detailed_thinking
    agent,             \* the agent: whether it has stream_async, and the
                       \* events, responses and usage payloads it can produce
    session_state,     \* SessionState
    token_tracker,     \* TokenTracker
    sys_stdout,        \* what sys.stdout is bound to: "stdout" or "buffer"
    terminal,          \* writes of the current query, in order, with destination
    pc,                \* where stream_agent_response is
    response_text,     \* list of fragments
    display_text,      \* the text shown and stored for the query
    response_obj,      \* None, or that an event / response was stored
    first_token_received,
    event,             \* the event / response held across `await thinking_task`
    usage_info,        \* usage record of the query, or NoUsage
    thinking_task,     \* "None", "pending", "sleeping", "done", "cancelled"
    stop_thinking,     \* asyncio.Event
    pending,           \* how the try block was left: "", "ok", "error", "cancelled"
    result,            \* what the last call returned or raised
    raised,            \* the step of the current query that raised, or ""
    calls,             \* per-query counters of collaborator calls
    hist,              \* what the session's cumulative readings were so far
    counts,            \* queries started
    pre,               \* accumulators as they were when the query started
    stdout_filter      \* a SmartStdoutFilter and the real stdout it wraps

vars == << renderer, streamer, harmony_processor, agent, session_state,
           token_tracker, sys_stdout, terminal, pc, response_text,
           display_text, response_obj, first_token_received,
           event, usage_info, thinking_task, stop_thinking, pending, result,
           raised, calls, hist, counts, pre, stdout_filter >>

NoCalls == [render_final_response |-> 0, fragments_printed |-> 0,
            parse_failures |-> 0, save_supplied |-> 0, save_started |-> 0,
            save_writes |-> 0, save_done |-> 0, audio |-> 0]

\* No cumulative reading yet; the previous query did not fail mid-stream.
NoHist == [monotone |-> TRUE, readings |-> 0,
           first_input |-> 0, first_output |-> 0,
           last_input |-> 0, last_output |-> 0,
           added_input |-> 0, added_output |-> 0,
           delta_input |-> 0, delta_output |-> 0,
           prev_failure |-> ""]

\* SessionState(agent_name): the id is made of the agent's name and the
\* second of its creation, `created`.
SessionState(created) ==
    [session_id |-> created, query_count |-> 0, conversation_markdown |-> <<>>,
     last_query |-> <<>>, last_response |-> <<>>,
     last_accumulated_input |-> 0, last_accumulated_output |-> 0]

\* SmartStdoutFilter(real_stdout), lines 18-26: the text seen so far, the
\* StringIO content, what was written to real_stdout, and the number of
\* write calls made.
SmartStdoutFilter ==
    [buffer |-> <<>>, getvalue |-> <<>>, real_stdout |-> <<>>, writes |-> 0]

\* One write to sys.stdout.
Out(what, text) == [what |-> what, to |-> sys_stdout, text |-> text]
\* One write to the stream `to`.
OutTo(to, what, text) == [what |-> what, to |-> to, text |-> text]

Accumulators ==
    [session_state |-> session_state, token_tracker |-> token_tracker,
     total_input_tokens |-> streamer.total_input_tokens,
     total_output_tokens |-> streamer.total_output_tokens]

\* ResponseStreamer.__init__, ResponseRenderer.__init__, SessionState(),
\* TokenTracker()
Init ==
    /\ \E console \in BOOLEAN, harmony \in BOOLEAN, detailed \in BOOLEAN,
          tokens \in BOOLEAN, thinking \in BOOLEAN, suppress \in BOOLEAN,
          streaming \in BOOLEAN, metered \in BOOLEAN :
         \* A metered agent reports every usage payload; it is a
         \* non-streaming agent deployed with the constructor defaults
         \* (plain text, indicator, suppression).
         /\ metered => /\ ~console /\ ~harmony
                        /\ thinking /\ suppress /\ ~streaming
         /\ detailed => harmony
         \* An agent deployed with the processor is a streaming agent
         \* deployed otherwise with the constructor defaults; it either
         \* returns provider tokens with plain text, or writes its text in
         \* channel tags for a processor with detailed mode off.
         /\ harmony => ~console /\ thinking /\ suppress /\ streaming
         /\ tokens => harmony
         /\ detailed => tokens
         \* Only a streaming agent's deployment reads the suppression flag.
         /\ ~streaming => suppress
         /\ agent = [stream_async |-> streaming,
                     events |-> IF harmony /\ ~tokens
                                THEN {NoEvent} \cup TaggedEvents ELSE Events,
                     responses |-> IF metered THEN PlainResponses ELSE Responses,
                     metadata |-> IF tokens THEN HarmonyMetadata
                                  ELSE {NoTokens},
                     \* Usage comes from agents deployed without the
                     \* processor and with the default indicator and
                     \* suppression flags.
                     payloads |-> IF metered THEN UsagePayloads
                                  ELSE IF ~harmony /\ thinking /\ suppress
                                  THEN FewPayloads
                                  ELSE {NoPayload}]
         /\ harmony_processor = [show_detailed_thinking |-> detailed]
         /\ renderer = [console |-> console, harmony_processor |-> harmony,
                        output_state |-> determine_output_state(console, harmony)]
         /\ streamer = [show_thinking |-> thinking,
                        suppress_agent_stdout |-> suppress,
                        harmony_processor |-> harmony,
                        total_input_tokens |-> 0, total_output_tokens |-> 0]
    /\ session_state = SessionState(0)
    /\ token_tracker = [total_input_tokens |-> 0, total_output_tokens |-> 0]
    /\ sys_stdout = "stdout"
    /\ terminal = <<>>
    /\ pc = "idle"
    /\ response_text = <<>>
    /\ display_text = <<>>
    /\ response_obj = "None"
    /\ first_token_received = FALSE
    /\ event = NoEvent
    /\ usage_info = NoUsage
    /\ thinking_task = "None"
    /\ stop_thinking = FALSE
    /\ pending = ""
    /\ result = [outcome |-> "", usage |-> NoUsage]
    /\ raised = ""
    /\ calls = NoCalls
    /\ hist = NoHist
    /\ counts = [queries |-> 0, reset |-> "none"]
    /\ pre = Accumulators
    /\ stdout_filter = SmartStdoutFilter

\* ------------------------------------------------- ResponseRenderer
\* render_agent_header
render_agent_header == << Out("header", <<>>) >>

\* render_streaming_text: what it prints
render_streaming_text(text, to) ==
    IF should_buffer(renderer.output_state) THEN <<>>
    ELSE << OutTo(to, "fragment", text) >>

should_skip_streaming_display == should_buffer(renderer.output_state)

\* A final render that prints the separator before every response.
render_final_response_separated(text, first_token, to) ==
    IF IsBlank(text) THEN <<>>
    ELSE << OutTo(to, "separator", <<>>),
            OutTo(to, IF renderer.console THEN "rich_markdown"
                      ELSE "plain_text", text) >>

\* render_final_response: what it prints
render_final_response(text, first_token, to) ==
    IF IsBlank(text) THEN <<>>
    ELSE (IF first_token /\ should_buffer(renderer.output_state)
          THEN << OutTo(to, "separator", <<>>) >> ELSE <<>>)
         \o << OutTo(to, IF renderer.console THEN "rich_markdown"
                         ELSE "plain_text", text) >>

\* ------------------------------------------------- HarmonyProcessor
\* The channels the modelled agents name.
ChannelNames == {"final", "reasoning"}

OpenTag(channel) == IF channel = "final" THEN "<final>" ELSE "<reasoning>"
CloseTag(channel) == IF channel = "final" THEN "</final>" ELSE "</reasoning>"

RECURSIVE find(_, _, _)
\* The first index >= from at which x is in text, 0 when there is none.
find(text, x, from) ==
    IF from > Len(text) THEN 0
    ELSE IF text[from] = x THEN from
    ELSE find(text, x, from + 1)

RECURSIVE findall(_)
\* re.findall(r"<(\w+)>(.*?)</\1>", text, re.DOTALL): leftmost matches
\* that do not overlap, each ending at the first closing tag.
findall(text) ==
    IF text = <<>> THEN <<>>
    ELSE LET opened == {c \in ChannelNames : Head(text) = OpenTag(c)}
         IN  IF opened = {} THEN findall(Tail(text))
             ELSE LET c == CHOOSE c \in opened : TRUE
                      j == find(text, CloseTag(c), 2)
                  IN  IF j = 0 THEN findall(Tail(text))
                      ELSE << [channel |-> c,
                               content |-> SubSeq(text, 2, j - 1)] >>
                           \o findall(SubSeq(text, j + 1, Len(text)))

RECURSIVE as_dict(_)
\* A dict filled in the order of the pairs: a later pair replaces an
\* earlier one with the same key.
as_dict(pairs) ==
    IF pairs = <<>> THEN <<>>
    ELSE LET n == Len(pairs)
         IN  (pairs[n].channel :> pairs[n].content)
                 @@ as_dict(SubSeq(pairs, 1, n - 1))

\* HarmonyProcessor._extract_channels
extract_channels(text) ==
    LET matches == findall(text)
    IN  as_dict([i \in DOMAIN matches |->
                    [channel |-> matches[i].channel,
                     content |-> strip(matches[i].content)]])

RECURSIVE contents_of(_, _)
\* The non-blank contents of the messages of one channel, in order.
contents_of(messages, channel) ==
    IF messages = <<>> THEN <<>>
    ELSE (IF Head(messages).channel = channel
             /\ ~IsBlank(Head(messages).content)
          THEN << Head(messages).content >> ELSE <<>>)
         \o contents_of(Tail(messages), channel)

\* HarmonyProcessor._group_messages_by_channel
group_messages_by_channel(messages) ==
    [c \in {messages[i].channel : i \in DOMAIN messages} |->
        join_lines(contents_of(messages, c))]

\* channels.get(key, default)
get(channels, key, default) ==
    IF key \in DOMAIN channels THEN channels[key] ELSE default

\* HarmonyProcessor.process_response, for a processor whose encoding is
\* loaded: channels from the parsed tokens, else (no tokens, or the parse
\* raised and was caught) from the tags in the text.
process_response(response_text_, metadata) ==
    IF metadata.tokens = "parsed"
    THEN LET channels == group_messages_by_channel(metadata.messages)
         IN  [text |-> IF DOMAIN channels = {} THEN response_text_
                       ELSE get(channels, "final",
                                get(channels, "response", response_text_)),
              channels |-> channels]
    ELSE [text |-> response_text_,
          channels |-> extract_channels(response_text_)]

\* HarmonyProcessor.format_for_display; the channels of the commentary
\* and tool-call sections are not among ChannelNames.
format_for_display(processed, show_detailed_thinking) ==
    LET channels == processed.channels
        final_response == get(channels, "final", processed.text)
        reasoning == get(channels, "reasoning", <<>>)
        lines ==
            (IF reasoning # <<>>
             THEN << <<"[REASONING]">>, reasoning, <<>> >> ELSE <<>>)
            \o (IF final_response # <<>>
                THEN << <<"[RESPONSE]">>, final_response >> ELSE <<>>)
    IN  IF ~show_detailed_thinking THEN final_response
        ELSE join_lines(lines)

\* Lines 335-338: process_response followed by format_for_display
harmony_display(full_response, metadata) ==
    format_for_display(process_response(full_response, metadata),
                       harmony_processor.show_detailed_thinking)

\* ------------------------------------------- SessionState, TokenTracker
\* A reset that keeps the last-seen cumulative totals.
reset_keeps_usage(s, now) ==
    [SessionState(now) EXCEPT
        !.last_accumulated_input = s.last_accumulated_input,
        !.last_accumulated_output = s.last_accumulated_output]

\* SessionState.reset(agent_name), called in the second `now`
reset(s, now) == SessionState(now)

\* SessionState.update_last_query
update_last_query(s, query) == [s EXCEPT !.last_query = query]

\* SessionState.update_last_response
update_last_response(s, text) == [s EXCEPT !.last_response = text]

\* SessionState.update_accumulated_usage: the deltas it returns
accumulated_delta(s, current_input, current_output) ==
    [input |-> current_input - s.last_accumulated_input,
     output |-> current_output - s.last_accumulated_output]

\* SessionState.update_accumulated_usage: the state it leaves
update_accumulated_usage(s, current_input, current_output) ==
    [s EXCEPT !.last_accumulated_input = current_input,
              !.last_accumulated_output = current_output]

\* SessionState.increment_query_count
increment_query_count(s) == [s EXCEPT !.query_count = @ + 1]

\* TokenTracker.add_usage
add_usage(t, input_tokens, output_tokens) ==
    [t EXCEPT !.total_input_tokens = @ + input_tokens,
              !.total_output_tokens = @ + output_tokens]

\* ------------------------------------------------ groups of variables
fixed  == << renderer, harmony_processor, agent, stdout_filter >>
accums == << streamer, session_state, token_tracker, hist >>

\* ------------------------------------------- the thinking-indicator task
\* The coroutine is suspended at an await, so other tasks may run.
Suspended ==
    pc \in {"await_event", "await_thinking", "await_executor",
            "await_thinking_call", "await_save"}

\* A frame starts with "\r": written over a frame on the same stream it
\* leaves the same line, so successive repaints are one entry.
Repaint(log, frame) ==
    IF log # <<>> /\ log[Len(log)] = frame THEN log ELSE Append(log, frame)

\* _show_thinking_indicator, one pass of the loop: stop_event is not set,
\* print a frame, sleep.
IndicatorTick ==
    /\ Suspended
    /\ thinking_task \in {"pending", "sleeping"}
    /\ ~stop_thinking
    /\ terminal' = Repaint(terminal, Out("frame", <<>>))
    /\ thinking_task' = "sleeping"
    /\ UNCHANGED << fixed, accums, sys_stdout, pc, response_text,
                    display_text, response_obj, first_token_received, event,
                    usage_info, stop_thinking, pending, result, raised, calls,
                    counts, pre >>

\* _show_thinking_indicator leaving the loop: stop_event is set, clear the
\* line, finish.
IndicatorClear ==
    /\ Suspended
    /\ thinking_task \in {"pending", "sleeping"}
    /\ stop_thinking
    /\ terminal' = Append(terminal, Out("clear", <<>>))
    /\ thinking_task' = "done"
    /\ UNCHANGED << fixed, accums, sys_stdout, pc, response_text,
                    display_text, response_obj, first_token_received, event,
                    usage_info, stop_thinking, pending, result, raised, calls,
                    counts, pre >>

\* ---------------------------------------------- stream_agent_response
\* The steps of the coroutine that can raise; the try block of lines
\* 174-475 covers them all.
\* A try block that ends before the audio notification.
TrySteps_before_audio == {"stream", "event", "call", "harmony", "render",
                          "usage", "save"}

Steps == {"stream", "event", "call", "harmony", "render", "usage",
          "save", "audio"}
TrySteps == Steps

\* A swap made whether or not suppression is on.
suppressed_stdout_always(current) == "buffer"

\* Lines 193-197, 243-244: sys.stdout is swapped for the StringIO buffer
\* when suppression is on.
suppressed_stdout(current) ==
    IF streamer.suppress_agent_stdout THEN "buffer" ELSE current

\* A stream loop without its restoring finally clause.
restored_stdout_never(current) == current

\* Lines 207-208, 247-248: sys.stdout is put back to old_stdout when
\* suppression is on.
restored_stdout(current) ==
    IF streamer.suppress_agent_stdout THEN "stdout" ELSE current

\* An exception raised by `step`: `except Exception` takes it when the try
\* block covers the step, else it leaves through the finally clause.
Raise(step) ==
    /\ raised' = step
    /\ pc' = IF step \in TrySteps THEN "except" ELSE "finally"
    /\ pending' = IF step \in TrySteps THEN pending ELSE "raised"

\* The stop event set without awaiting the task.
awaits_thinking_task_never(task) == FALSE

\* Lines 221-222, 263-264: `if thinking_task: await thinking_task`
awaits_thinking_task(task) == task # "None"

\* Lines 163-208: header, indicator task, and for a streaming agent the
\* stdout swap before the first `async for` step; `s` is the session state
\* the caller leaves.
StartQueryFrom(s) ==
    /\ pc = "idle"
    /\ counts.queries < MaxQueries
    /\ terminal' = render_agent_header
    /\ thinking_task' = IF streamer.show_thinking THEN "pending" ELSE "None"
    /\ stop_thinking' = FALSE
    /\ response_text' = <<>>
    /\ display_text' = <<>>
    /\ response_obj' = "None"
    /\ first_token_received' = FALSE
    /\ event' = NoEvent
    /\ usage_info' = NoUsage
    /\ pending' = ""
    /\ raised' = ""
    /\ result' = [outcome |-> "", usage |-> NoUsage]
    /\ calls' = NoCalls
    /\ hist' = [hist EXCEPT !.prev_failure =
                    IF result.outcome = "error" /\ raised = "stream"
                       /\ response_text # <<>>
                    THEN "mid-stream" ELSE ""]
    /\ counts' = [queries |-> counts.queries + 1,
                   reset |-> IF counts.reset = "none" THEN "none" ELSE "past"]
    /\ session_state' = s
    /\ pre' = [Accumulators EXCEPT !.session_state = s]
    /\ IF agent.stream_async
       THEN /\ sys_stdout' = suppressed_stdout(sys_stdout)
            /\ pc' = "await_event"
       ELSE /\ sys_stdout' = sys_stdout
            /\ pc' = "await_executor"
    /\ UNCHANGED << fixed, streamer, token_tracker >>

\* stream_agent_response is called.
StartQuery == StartQueryFrom(session_state)

\* A loop that collects whatever the parser returns.
text_found_always(text_to_add) == TRUE

\* Lines 229, 234: `if text_to_add:`
text_found(text_to_add) == text_to_add.some /\ text_to_add.val # <<>>

\* Lines 225-244: parse the event, collect and show its text, swap stdout
\* again; `fault` is an exception raised on the way (the inner finally
\* restores stdout).
ProcessEvent(e, fault) ==
    LET text_to_add == parse_event(e)
        truthy == text_found(text_to_add)
        printed == IF truthy
                   THEN render_streaming_text(text_to_add.val,
                                              restored_stdout(sys_stdout))
                   ELSE <<>>
    IN  IF fault
        THEN /\ Raise("event")
             /\ sys_stdout' = restored_stdout(sys_stdout)
             /\ UNCHANGED << response_text, terminal, calls >>
        ELSE /\ response_text' =
                    IF truthy THEN Append(response_text, text_to_add.val)
                    ELSE response_text
             /\ terminal' = terminal \o printed
             /\ calls' = [calls EXCEPT !.fragments_printed = @ + Len(printed)]
             /\ sys_stdout' = suppressed_stdout(restored_stdout(sys_stdout))
             /\ pc' = "await_event"
             /\ UNCHANGED << raised, pending >>

\* Lines 205-223: the stream yields an event; stdout is restored, and on the
\* first event the indicator is told to stop and awaited.
StreamEvent ==
    /\ pc = "await_event"
    /\ response_obj' = "event"
    /\ \E e \in agent.events, fault \in BOOLEAN :
         /\ parse_event(e).val # <<>> => Len(response_text) < MaxFragments
         /\ IF ~first_token_received
            THEN /\ stop_thinking' = TRUE
                 /\ IF awaits_thinking_task(thinking_task)
                    THEN /\ fault = FALSE
                         /\ pc' = "await_thinking"
                         /\ event' = e
                         /\ sys_stdout' = restored_stdout(sys_stdout)
                         /\ UNCHANGED << first_token_received, response_text,
                                         terminal, calls, raised, pending >>
                    ELSE /\ first_token_received' = TRUE
                         /\ ProcessEvent(e, fault)
                         /\ UNCHANGED event
            ELSE /\ ProcessEvent(e, fault)
                 /\ UNCHANGED << stop_thinking, first_token_received, event >>
    /\ UNCHANGED << fixed, accums, display_text, usage_info, thinking_task,
                    result, counts, pre >>

\* Lines 222-244: `await thinking_task` returns, the first event is
\* processed.  What is left of the iteration can raise only when a text was
\* found: the parser returns None instead of raising.
FirstEventResume ==
    /\ pc = "await_thinking"
    /\ thinking_task \in {"None", "done"}
    /\ first_token_received' = TRUE
    /\ \E fault \in BOOLEAN :
         /\ fault => text_found(parse_event(event))
         /\ ProcessEvent(event, fault)
    /\ UNCHANGED << fixed, accums, display_text, response_obj, event,
                    usage_info, thinking_task, stop_thinking, result, counts,
                    pre >>

\* Lines 205, 245-248: the stream is exhausted; the inner finally restores
\* stdout.
StreamEnd ==
    /\ pc = "await_event"
    /\ sys_stdout' = restored_stdout(sys_stdout)
    /\ pc' = "stream_complete"
    /\ UNCHANGED << fixed, accums, terminal, response_text, display_text,
                    response_obj, first_token_received, event, usage_info,
                    thinking_task, stop_thinking, pending, result, raised,
                    calls, counts, pre >>

\* Lines 205, 245-248, 477: the stream raises; the inner finally restores
\* stdout.
StreamRaise ==
    /\ pc = "await_event"
    /\ sys_stdout' = restored_stdout(sys_stdout)
    /\ Raise("stream")
    /\ UNCHANGED << fixed, accums, terminal, response_text, display_text,
                    response_obj, first_token_received, event, usage_info,
                    thinking_task, stop_thinking, result, calls, counts,
                    pre >>

\* Lines 267-282: the text of a non-streaming response.
response_fragments(response) == response.blocks

\* Lines 251-264: the blocking call returns; the indicator is told to stop
\* and awaited.
CallReturn ==
    /\ pc = "await_executor"
    /\ response_obj' = "response"
    /\ stop_thinking' = TRUE
    /\ \E response \in agent.responses :
         IF awaits_thinking_task(thinking_task)
         THEN /\ pc' = "await_thinking_call"
              /\ event' = response
              /\ UNCHANGED response_text
         ELSE /\ pc' = "stream_complete"
              /\ response_text' = response_fragments(response)
              /\ UNCHANGED event
    /\ UNCHANGED << fixed, accums, sys_stdout, terminal, display_text,
                    first_token_received, usage_info, thinking_task, pending,
                    result, raised, calls, counts, pre >>

\* Lines 264-282: `await thinking_task` returns after the blocking call.
CallResume ==
    /\ pc = "await_thinking_call"
    /\ thinking_task \in {"None", "done"}
    /\ response_text' = response_fragments(event)
    /\ pc' = "stream_complete"
    /\ UNCHANGED << fixed, accums, sys_stdout, terminal, display_text,
                    response_obj, first_token_received, event, usage_info,
                    thinking_task, stop_thinking, pending, result, raised,
                    calls, counts, pre >>

\* Lines 251, 477: the blocking call raises.
CallRaise ==
    /\ pc = "await_executor"
    /\ Raise("call")
    /\ UNCHANGED << fixed, accums, sys_stdout, terminal, response_text,
                    display_text, response_obj, first_token_received, event,
                    usage_info, thinking_task, stop_thinking, result, calls,
                    counts, pre >>

\* ------------------------------- stream_agent_response, after the stream
\* A flag that looks at the output state only.
already_printed_streaming_unbuffered == ~should_skip_streaming_display

\* Lines 297-300
already_printed_streaming ==
    first_token_received /\ ~should_skip_streaming_display

\* A raw text that is the last fragment only.
full_response_last ==
    IF response_text = <<>> THEN <<>> ELSE response_text[Len(response_text)]

\* Line 292
full_response == Join(response_text)

\* Lines 303-338: the display text, given what the last event / response
\* carries for the processor
displayed(metadata) ==
    IF streamer.harmony_processor THEN harmony_display(full_response, metadata)
    ELSE full_response

\* Lines 165-221 of harmony_processor.py: a failure of the token parse is
\* caught inside process_response.
caught_in_process_response(metadata) ==
    IF streamer.harmony_processor /\ metadata.tokens = "unparseable"
    THEN 1 ELSE 0

\* Lines 292-353: post-process, store last_response, final render unless the
\* fragments were already printed.  `fault` names the step that raises:
\* "harmony" is an exception that leaves process_response or
\* format_for_display.
RenderCollected ==
    /\ pc = "stream_complete"
    /\ \E fault \in {"none", "harmony", "render"}, metadata \in agent.metadata :
         /\ response_obj = "None" => metadata = NoTokens
         /\ CASE fault = "harmony" ->
                /\ streamer.harmony_processor
                /\ display_text' = full_response
                /\ Raise("harmony")
                /\ UNCHANGED << session_state, terminal, calls >>
           [] fault = "render" ->
                /\ ~already_printed_streaming
                /\ display_text' = displayed(metadata)
                /\ session_state' =
                       update_last_response(session_state, display_text')
                /\ calls' = [calls EXCEPT
                       !.render_final_response = @ + 1,
                       !.parse_failures = caught_in_process_response(metadata)]
                /\ Raise("render")
                /\ UNCHANGED terminal
           [] OTHER ->
                /\ display_text' = displayed(metadata)
                /\ session_state' =
                       update_last_response(session_state, display_text')
                /\ terminal' =
                       IF already_printed_streaming THEN terminal
                       ELSE terminal \o render_final_response(display_text',
                                           first_token_received, sys_stdout)
                /\ calls' = [calls EXCEPT
                       !.render_final_response =
                           IF already_printed_streaming THEN @ ELSE @ + 1,
                       !.parse_failures = caught_in_process_response(metadata)]
                /\ pc' = "rendered"
                /\ UNCHANGED << raised, pending >>
    /\ UNCHANGED << fixed, streamer, token_tracker, hist, sys_stdout,
                    response_text, response_obj, first_token_received, event,
                    usage_info, thinking_task, stop_thinking, result, counts,
                    pre >>

\* A guard that wants both deltas positive.
delta_is_added_both(delta) == delta.input > 0 /\ delta.output > 0

\* A guard that takes every change of the counters.
delta_is_added_nonzero(delta) == delta.input # 0 \/ delta.output # 0

\* A guard that looks at the input delta only.
delta_is_added_input(delta) == delta.input > 0

\* Lines 381-382: whether the cumulative delta is added to the tracker
delta_is_added(delta) == delta.input > 0 \/ delta.output > 0

\* The history of cumulative readings after one more payload was read:
\* `added` is what the token tracker gained.
Reading(payload, usage_result, added) ==
    LET input == to_int(payload.input).val
        output == to_int(payload.output).val
    IN  IF payload.kind = "accumulated"
        THEN [hist EXCEPT
                !.monotone = @ /\ input >= hist.last_input
                               /\ output >= hist.last_output,
                !.readings = IF @ < 2 THEN @ + 1 ELSE @,
                !.first_input = IF hist.readings = 0 THEN input ELSE @,
                !.first_output = IF hist.readings = 0 THEN output ELSE @,
                !.last_input = input,
                !.last_output = output,
                !.added_input = IF hist.readings = 0 THEN 0 ELSE @ + added.input,
                !.added_output = IF hist.readings = 0 THEN 0 ELSE @ + added.output,
                !.delta_input = input - session_state.last_accumulated_input,
                !.delta_output = output - session_state.last_accumulated_output]
        ELSE IF usage_result.some THEN [hist EXCEPT !.monotone = FALSE]
        ELSE hist

\* Lines 358-387: extract usage; a cumulative record adds its delta against
\* the last-seen totals, a per-turn record adds its values.
RecordUsage ==
    /\ pc = "rendered"
    /\ \E payload \in agent.payloads, fault \in BOOLEAN :
         /\ response_obj = "None" => payload = NoPayload
         /\ IF fault
            THEN /\ Raise("usage")
                 /\ UNCHANGED << session_state, token_tracker, usage_info,
                                 hist >>
            ELSE LET usage_result == extract_token_usage(payload)
                     delta == accumulated_delta(session_state,
                                 usage_result.input_tokens,
                                 usage_result.output_tokens)
                 IN  /\ usage_info' = usage_result
                     /\ pc' = "usage_recorded"
                     /\ UNCHANGED << raised, pending >>
                     /\ IF ~usage_result.some
                        THEN UNCHANGED << session_state, token_tracker >>
                        ELSE IF usage_result.is_accumulated
                        THEN /\ session_state' = update_accumulated_usage(
                                    session_state, usage_result.input_tokens,
                                    usage_result.output_tokens)
                             /\ token_tracker' =
                                    IF delta_is_added(delta)
                                    THEN add_usage(token_tracker, delta.input,
                                                   delta.output)
                                    ELSE token_tracker
                        ELSE /\ token_tracker' = add_usage(token_tracker,
                                    usage_result.input_tokens,
                                    usage_result.output_tokens)
                             /\ UNCHANGED session_state
                     /\ hist' = Reading(payload, usage_result,
                           [input |-> token_tracker'.total_input_tokens
                                        - token_tracker.total_input_tokens,
                            output |-> token_tracker'.total_output_tokens
                                        - token_tracker.total_output_tokens])
    /\ UNCHANGED << fixed, streamer, sys_stdout, terminal, response_text,
                    display_text, response_obj, first_token_received, event,
                    thinking_task, stop_thinking, result, calls, counts,
                    pre >>

\* An entry whose header does not carry the query number.
md_entry_unnumbered(query_num, text, usage) ==
    [query_num |-> 0, response |-> text,
     has_tokens |-> usage.some /\ usage.input_tokens + usage.output_tokens > 0,
     input_tok |-> usage.input_tokens, output_tok |-> usage.output_tokens]

\* An entry that always carries token metadata.
md_entry_with_tokens(query_num, text, usage) ==
    [query_num |-> query_num, response |-> text, has_tokens |-> TRUE,
     input_tok |-> usage.input_tokens, output_tok |-> usage.output_tokens]

\* Lines 442-464: the transcript entry of a query
md_entry(query_num, text, usage) ==
    [query_num |-> query_num, response |-> text,
     has_tokens |-> usage.some /\ usage.input_tokens + usage.output_tokens > 0,
     input_tok |-> usage.input_tokens, output_tok |-> usage.output_tokens]

\* A query that never calls the persistence callback.
awaits_save_never(save_conversation_callback) == FALSE

\* Lines 469-470: `if save_conversation_callback: await ...`
awaits_save(save_conversation_callback) == save_conversation_callback

\* Lines 395-470: metrics line, query count, transcript entry, the
\* streamer's own totals, and the start of the persistence callback when
\* the caller passed one.
AppendTranscript ==
    /\ pc = "usage_recorded"
    /\ terminal' = Append(terminal, Out("metrics", <<>>))
    /\ LET counted == increment_query_count(session_state)
       IN  session_state' =
             [counted EXCEPT !.conversation_markdown =
                 Append(@, md_entry(counted.query_count, display_text, usage_info))]
    /\ streamer' = IF usage_info.some
                   THEN [streamer EXCEPT
                           !.total_input_tokens = @ + usage_info.input_tokens,
                           !.total_output_tokens = @ + usage_info.output_tokens]
                   ELSE streamer
    /\ \E save_conversation_callback \in BOOLEAN :
         IF awaits_save(save_conversation_callback)
         THEN /\ pc' = "await_save"
              /\ calls' = [calls EXCEPT !.save_supplied = 1,
                                        !.save_started = @ + 1]
         ELSE /\ pc' = "audio"
              /\ calls' = [calls EXCEPT !.save_supplied =
                              IF save_conversation_callback THEN 1 ELSE 0]
    /\ UNCHANGED << fixed, token_tracker, hist, sys_stdout, response_text,
                    display_text, response_obj, first_token_received, event,
                    usage_info, thinking_task, stop_thinking, pending, result,
                    raised, counts, pre >>

\* The persistence callback writes the transcript it reads.
SaveWrite ==
    /\ pc = "await_save"
    /\ calls.save_writes = 0
    /\ calls' = [calls EXCEPT !.save_writes = @ + 1]
    /\ UNCHANGED << fixed, accums, sys_stdout, terminal, pc, response_text,
                    display_text, response_obj, first_token_received, event,
                    usage_info, thinking_task, stop_thinking, pending, result,
                    raised, counts, pre >>

\* Line 470: `await save_conversation_callback()` returns or raises.
SaveReturn ==
    /\ pc = "await_save"
    /\ \E fault \in BOOLEAN :
         IF fault THEN Raise("save") /\ UNCHANGED calls
         ELSE /\ pc' = "audio"
              /\ calls' = [calls EXCEPT !.save_done = @ + 1]
              /\ UNCHANGED << raised, pending >>
    /\ UNCHANGED << fixed, accums, sys_stdout, terminal, response_text,
                    display_text, response_obj, first_token_received, event,
                    usage_info, thinking_task, stop_thinking, result, counts,
                    pre >>

\* Lines 473-475: audio notification, then the success record.
AudioReturn ==
    /\ pc = "audio"
    /\ calls' = [calls EXCEPT !.audio = @ + 1]
    /\ \E fault \in BOOLEAN :
         IF fault THEN Raise("audio")
         ELSE pc' = "finally" /\ pending' = "ok" /\ UNCHANGED raised
    /\ UNCHANGED << fixed, accums, sys_stdout, terminal, response_text,
                    display_text, response_obj, first_token_received, event,
                    usage_info, thinking_task, stop_thinking, result, counts,
                    pre >>

\* Lines 477-490: `except Exception`: error lines, the error record.
ExceptHandler ==
    /\ pc = "except"
    /\ terminal' = Append(terminal, Out("error", <<>>))
    /\ pending' = "error"
    /\ pc' = "finally"
    /\ UNCHANGED << fixed, accums, sys_stdout, response_text, display_text,
                    response_obj, first_token_received, event, usage_info,
                    thinking_task, stop_thinking, result, raised, calls,
                    counts, pre >>

\* CancelledError delivered at the await the coroutine is suspended in.  It
\* is not an Exception: the inner finally (stream loop) restores stdout, the
\* `except Exception` clause is passed over, the outer finally runs.  A
\* task being awaited is cancelled with its awaiter.
Cancel ==
    /\ Suspended
    /\ pending' = "cancelled"
    /\ raised' = pc
    /\ pc' = "finally"
    /\ sys_stdout' = IF pc \in {"await_event", "await_thinking"}
                     THEN restored_stdout(sys_stdout) ELSE sys_stdout
    /\ thinking_task' =
         IF pc \in {"await_thinking", "await_thinking_call"}
            /\ thinking_task \in {"pending", "sleeping"}
         THEN "cancelled" ELSE thinking_task
    /\ UNCHANGED << fixed, accums, terminal, response_text, display_text,
                    response_obj, first_token_received, event, usage_info,
                    stop_thinking, result, calls, counts, pre >>

\* A cleanup that only sets the stop event.
cleanup_thinking_none(task) == task

\* Lines 495-500: a task that is not done is cancelled and awaited.
cleanup_thinking(task) ==
    IF task \in {"pending", "sleeping"} THEN "cancelled" ELSE task

\* Lines 492-500: finally: set the stop event, cancel and await the
\* indicator task if it is not done; then return or re-raise.  The
\* coroutine's locals end with it.
Finally ==
    /\ pc = "finally"
    /\ stop_thinking' = TRUE
    /\ thinking_task' = cleanup_thinking(thinking_task)
    /\ result' = [outcome |-> pending,
                  usage |-> IF pending = "ok" THEN usage_info ELSE NoUsage]
    /\ pc' = "idle"
    /\ response_obj' = "None"
    /\ event' = NoEvent
    /\ usage_info' = NoUsage
    /\ pending' = ""
    /\ UNCHANGED << fixed, accums, sys_stdout, terminal, response_text,
                    display_text, first_token_received, raised, calls, counts,
                    pre >>

\* --------------------------------------------------- the chat loop
\* The chat loop notes the query, then calls stream_agent_response.
SubmitQuery ==
    StartQueryFrom(update_last_query(session_state, <<"a">>))

\* The seconds of the clock a run goes through.
Seconds == {0, 1}

\* The chat loop resets the session after a query, in the second `now`,
\* not before the second the session id was made in.  The token tracker
\* and the streamer are not part of the session state.
Reset ==
    /\ pc = "idle"
    /\ counts.queries > 0 /\ counts.reset = "none"
    /\ \E now \in Seconds :
         /\ now >= session_state.session_id
         /\ session_state' = reset(session_state, now)
    /\ hist' = NoHist
    /\ counts' = [counts EXCEPT !.reset = "fresh"]
    /\ UNCHANGED << fixed, streamer, token_tracker, sys_stdout, terminal, pc,
                    response_text, display_text, response_obj,
                    first_token_received, event, usage_info, thinking_task,
                    stop_thinking, pending, result, raised, calls, pre >>

Next ==
    \/ StartQuery
    \/ IndicatorTick
    \/ IndicatorClear
    \/ StreamEvent
    \/ FirstEventResume
    \/ StreamEnd
    \/ StreamRaise
    \/ CallReturn
    \/ CallResume
    \/ CallRaise
    \/ RenderCollected
    \/ RecordUsage
    \/ AppendTranscript
    \/ SaveWrite
    \/ SaveReturn
    \/ AudioReturn
    \/ ExceptHandler
    \/ Cancel
    \/ Finally

Spec == Init /\ [][Next]_vars

\* A session of an agent that reports cumulative usage, with the chat
\* loop's session reset.
InitReset == Init /\ agent.payloads = UsagePayloads

NextReset ==
    \/ SubmitQuery
    \/ IndicatorTick
    \/ IndicatorClear
    \/ CallReturn
    \/ CallResume
    \/ CallRaise
    \/ RenderCollected
    \/ RecordUsage
    \/ AppendTranscript
    \/ SaveWrite
    \/ SaveReturn
    \/ AudioReturn
    \/ ExceptHandler
    \/ Cancel
    \/ Finally
    \/ Reset

SpecReset == InitReset /\ [][NextReset]_vars

\* ------------------------------------------------- SmartStdoutFilter
\* The characters written to the filter, and the texts of one write.
FilterChars == {"a", "?", ":", " ", "\n"}
FilterTexts == UNION {[1..n -> FilterChars] : n \in 0..MaxText}

RECURSIVE split(_)
\* text.split('\n')
split(text) ==
    IF \A i \in DOMAIN text : text[i] # "\n" THEN << text >>
    ELSE LET i == CHOOSE k \in DOMAIN text :
                      text[k] = "\n" /\ \A j \in 1..(k - 1) : text[j] # "\n"
         IN  << SubSeq(text, 1, i - 1) >>
                 \o split(SubSeq(text, i + 1, Len(text)))

RECURSIVE rstrip_spaces(_)
\* What ` *$` leaves of a line.
rstrip_spaces(line) ==
    IF line # <<>> /\ line[Len(line)] = " "
    THEN rstrip_spaces(SubSeq(line, 1, Len(line) - 1)) ELSE line

\* What ` *:? *$` leaves of a line.
before_colon(line) ==
    LET l == rstrip_spaces(line)
    IN  IF l # <<>> /\ l[Len(l)] = ":"
        THEN rstrip_spaces(SubSeq(l, 1, Len(l) - 1)) ELSE l

\* Lines 29-35, 77: re.search(pattern, line) for the five prompt patterns,
\* in their order.
search(pattern, line) ==
    LET l == rstrip_spaces(line)
        b == before_colon(line)
    IN  CASE pattern = 1 -> l # <<>> /\ l[Len(l)] = "?"
          [] pattern = 2 -> \E m \in {l, b} :
                                /\ Len(m) >= 3
                                /\ m[Len(m) - 2] \in {"Y", "y"}
                                /\ m[Len(m) - 1] = "/"
                                /\ m[Len(m)] \in {"N", "n"}
          [] pattern = 3 -> l # <<>> /\ l[Len(l)] = ":"
          [] pattern = 4 -> \E m \in {l, b} :
                                /\ m # <<>> /\ m[Len(m)] = "]"
                                /\ \E i \in 1..(Len(m) - 1) : m[i] = "["
          [] OTHER -> l # <<>> /\ l[Len(l)] = ">"

prompt_patterns == 1..5

\* Lines 69-70
last_line(buffer) == LET lines == split(buffer) IN lines[Len(lines)]

\* Lines 73
prev_line(buffer) ==
    LET lines == split(buffer)
    IN  IF Len(lines) > 1 THEN lines[Len(lines) - 1] ELSE <<>>

\* _looks_like_prompt
looks_like_prompt(buffer) ==
    \E pattern \in prompt_patterns :
        search(pattern, last_line(buffer)) \/ search(pattern, prev_line(buffer))

\* SmartStdoutFilter.write
write(f, text) ==
    IF text = <<>> THEN f
    ELSE LET buffer == f.buffer \o text
         IN  IF looks_like_prompt(buffer)
             THEN [f EXCEPT !.buffer = buffer, !.real_stdout = @ \o text]
             ELSE [f EXCEPT !.buffer = buffer, !.getvalue = @ \o text]

\* SmartStdoutFilter.get_suppressed_output
get_suppressed_output(f) == f.getvalue

\* One write call on the filter.
FilterWrite ==
    /\ stdout_filter.writes < MaxWrites
    /\ \E text \in FilterTexts :
         stdout_filter' = [write(stdout_filter, text) EXCEPT !.writes = @ + 1]
    /\ UNCHANGED << renderer, harmony_processor, agent, accums, sys_stdout,
                    terminal, pc, response_text, display_text, response_obj,
                    first_token_received, event, usage_info, thinking_task,
                    stop_thinking, pending, result, raised, calls, counts,
                    pre >>

\* A filter that is written to, in one deployment.
InitFilter == InitReset

NextFilter == FilterWrite

SpecFilter == InitFilter /\ [][NextFilter]_vars

TypeOK ==
    /\ pc \in {"idle", "await_event", "await_thinking", "await_executor",
               "await_thinking_call", "stream_complete", "rendered",
               "usage_recorded", "await_save", "audio", "except", "finally"}
    /\ thinking_task \in {"None", "pending", "sleeping", "done", "cancelled"}
    /\ sys_stdout \in {"stdout", "buffer"}
    /\ session_state.query_count = Len(session_state.conversation_markdown)

\* ------------------------------------------------------------ claims
\* The query has returned or re-raised.
Ended == pc = "idle" /\ counts.queries > 0

ContentKinds == {"fragment", "separator", "rich_markdown", "plain_text"}

\* The session accumulator is as it was when the query started.
AccumulatorUnchanged ==
    /\ session_state = pre.session_state
    /\ token_tracker = pre.token_tracker
    /\ streamer.total_input_tokens = pre.total_input_tokens
    /\ streamer.total_output_tokens = pre.total_output_tokens

\* C1: a query that completes without error calls render_final_response
\* exactly once when render_streaming_text printed no fragment, and not at
\* all when it printed at least one.
C1_FinalRenderExactlyOnce ==
    (Ended /\ result.outcome = "ok") =>
        IF calls.fragments_printed = 0
        THEN calls.render_final_response = 1
        ELSE calls.render_final_response = 0

\* C2: with cumulative, non-decreasing readings only, the tracker's totals
\* equal the latest reading, and what was added after the first reading is
\* the latest reading minus the first.
C2_CumulativeDeltaLaw ==
    (hist.monotone /\ hist.readings >= 1) =>
        /\ token_tracker.total_input_tokens = hist.last_input
        /\ token_tracker.total_output_tokens = hist.last_output
        /\ hist.added_input = hist.last_input - hist.first_input
        /\ hist.added_output = hist.last_output - hist.first_output

\* C2 witness: a second cumulative reading higher than the first was recorded.
C2_Witness ==
    /\ hist.monotone /\ hist.readings = 2
    /\ hist.last_input > hist.first_input
    /\ hist.last_output > hist.first_output
    /\ pc = "usage_recorded"

\* A cumulative record with a lowered counter has just been recorded.
LoweredReadingRecorded ==
    /\ pc = "usage_recorded"
    /\ usage_info.some /\ usage_info.is_accumulated
    /\ (hist.delta_input < 0 \/ hist.delta_output < 0)

\* What the token tracker gained in the current query.
TrackerGain ==
    [input |-> token_tracker.total_input_tokens
                 - pre.token_tracker.total_input_tokens,
     output |-> token_tracker.total_output_tokens
                 - pre.token_tracker.total_output_tokens]

\* C3 as stated: a cumulative reading below the last-seen total adds its
\* negative delta to the running totals unchanged, whatever the signs of the
\* two deltas.
C3_NegativeDeltaAlwaysAdded ==
    LoweredReadingRecorded =>
        /\ TrackerGain.input = hist.delta_input
        /\ TrackerGain.output = hist.delta_output

\* C3 amended: the deltas of a lowered reading are added unchanged when one
\* of the two is positive; when neither is positive nothing is added; the
\* last-seen totals become the reading in both cases.
C3_NegativeDeltaAddedWithPositive ==
    LoweredReadingRecorded =>
        /\ IF hist.delta_input > 0 \/ hist.delta_output > 0
           THEN /\ TrackerGain.input = hist.delta_input
                /\ TrackerGain.output = hist.delta_output
           ELSE /\ TrackerGain.input = 0
                /\ TrackerGain.output = 0
        /\ session_state.last_accumulated_input = usage_info.input_tokens
        /\ session_state.last_accumulated_output = usage_info.output_tokens

\* C3 witness: a negative input delta was added together with a positive
\* output delta.
C3_Witness ==
    /\ LoweredReadingRecorded
    /\ hist.delta_input < 0 /\ hist.delta_output > 0
    /\ TrackerGain.input < 0

ErrorLinePrinted ==
    \E i \in DOMAIN terminal :
        terminal[i].what = "error" /\ terminal[i].to = "stdout"

IndicatorOver == thinking_task \in {"None", "done", "cancelled"}

\* C4: a stream that raises after yielding fragments ends the query with the
\* error record, an error line on the terminal, the accumulator as before
\* the call, and stdout and the indicator as a new query needs them.
C4_MidStreamFailure ==
    (Ended /\ raised = "stream" /\ response_text # <<>>) =>
        /\ result.outcome = "error" /\ ~result.usage.some
        /\ AccumulatorUnchanged
        /\ ErrorLinePrinted
        /\ sys_stdout = "stdout"
        /\ IndicatorOver

\* C4 witness: the query after a mid-stream failure completed and was
\* counted.
C4_Witness ==
    /\ Ended /\ hist.prev_failure = "mid-stream"
    /\ result.outcome = "ok"
    /\ session_state.query_count = pre.session_state.query_count + 1
    /\ response_text # <<>>

\* C5: whichever step raises, the call returns the error record and leaves
\* stdout restored for the next query.
C5_NoExceptionEscapes ==
    /\ (pc = "finally" /\ raised \in Steps) => pending = "error"
    /\ (Ended /\ raised \in Steps) =>
           /\ result.outcome = "error" /\ ~result.usage.some
           /\ sys_stdout = "stdout"

\* C5 witness: after a failed query, a query whose audio notifier raised
\* returned the error record.
C5_Witness ==
    /\ Ended /\ counts.queries = 2
    /\ pre.session_state.query_count = 0
    /\ raised = "audio" /\ result.outcome = "error"

\* C6 as stated: a query that ends with the error outcome leaves the
\* session accumulator exactly as it was before the query.
C6_ErrorLeavesAccumulator ==
    (Ended /\ result.outcome = "error") => AccumulatorUnchanged

\* C7 as stated: a query cancelled at a suspension point has its indicator
\* stopped, appends no transcript entry, adds no usage, and makes no
\* persistence write.
C7_CancelLeavesNoTrace ==
    (Ended /\ result.outcome = "cancelled") =>
        /\ stop_thinking /\ IndicatorOver
        /\ session_state.conversation_markdown
               = pre.session_state.conversation_markdown
        /\ token_tracker = pre.token_tracker
        /\ calls.save_writes = 0

\* C8: when the call has returned or re-raised, the indicator task was
\* signalled to stop and has terminated.
C8_IndicatorOverAtExit ==
    Ended => (stop_thinking /\ IndicatorOver)

\* C8 witness: a query completed while its indicator was still running (the
\* stream yielded no event), so the finally clause had to end it.
C8_Witness ==
    /\ Ended /\ result.outcome = "ok"
    /\ thinking_task = "cancelled"

\* C9: response content appears only after the indicator, if there is one,
\* wrote its line-clearing output to the terminal and terminated; nothing
\* of the indicator is written after content.
C9_ClearedBeforeContent ==
    \A i \in DOMAIN terminal :
        terminal[i].what \in ContentKinds =>
            /\ streamer.show_thinking =>
                   /\ thinking_task = "done"
                   /\ \E j \in 1..(i - 1) :
                          terminal[j].what = "clear" /\ terminal[j].to = "stdout"
            /\ \A j \in (i + 1)..Len(terminal) :
                   terminal[j].what \notin {"frame", "clear"}

\* C9 witness: a repaint, then the clearing write, then a fragment.
C9_Witness ==
    \E i, j, k \in DOMAIN terminal :
        /\ i < j /\ j < k
        /\ terminal[i].what = "frame"
        /\ terminal[j].what = "clear"
        /\ terminal[k].what = "fragment"

\* C10 as stated: every repaint of the indicator is written to the real
\* standard output.
C10_TicksReachTerminal ==
    \A i \in DOMAIN terminal :
        terminal[i].what = "frame" => terminal[i].to = "stdout"

\* C11 as stated: with detailed mode off, the display text the processor
\* gives for a non-empty raw text is never the empty string.
C11_DisplayNeverEmpty ==
    (/\ pc = "rendered"
     /\ streamer.harmony_processor
     /\ ~harmony_processor.show_detailed_thinking
     /\ full_response # <<>>)
        => display_text # <<>>

\* The processor failed in the current query: an exception left it, or its
\* token parse raised and was caught inside it.
ProcessorFailed == raised = "harmony" \/ calls.parse_failures = 1

\* C12 as stated: a query whose processor failed completes normally, with
\* the raw text as its display text, one final render, and its transcript
\* entry.
C12_ProcessorFailureHandled ==
    (Ended /\ ProcessorFailed /\ raised \in {"", "harmony"}) =>
        /\ result.outcome = "ok"
        /\ display_text = full_response
        /\ session_state.last_response = full_response
        /\ calls.render_final_response = 1
        /\ session_state.query_count = pre.session_state.query_count + 1

\* C13 as stated: a query whose audio notifier failed returns the success
\* record, and no failure is reported on the terminal.
C13_AudioFailureIgnored ==
    (Ended /\ raised = "audio") =>
        /\ result.outcome = "ok"
        /\ ~ErrorLinePrinted

\* The transcript entry of the current query, once appended.
LastEntry ==
    session_state.conversation_markdown[
        Len(session_state.conversation_markdown)]

Counted == session_state.query_count = pre.session_state.query_count + 1

\* C14: the persistence callback is started at most once in a query, and
\* exactly when one was supplied to a query that reached the transcript
\* step; while it runs the query is counted, its entry is the last of the
\* transcript and its usage is in the totals; a query that returns the
\* success record has let it finish; a query that did not append its entry
\* did not start it.
C14_SaveOnceAfterTranscript ==
    /\ calls.save_started = calls.save_supplied
    /\ calls.save_started <= 1 /\ calls.save_done <= calls.save_started
    /\ pc = "await_save" =>
           /\ calls.save_started = 1
           /\ Counted
           /\ LastEntry.query_num = session_state.query_count
           /\ LastEntry.response = display_text
           /\ (usage_info.some /\ ~usage_info.is_accumulated) =>
                  /\ TrackerGain.input = usage_info.input_tokens
                  /\ TrackerGain.output = usage_info.output_tokens
    /\ (Ended /\ result.outcome = "ok") =>
           calls.save_done = calls.save_supplied
    /\ ~Counted => calls.save_started = 0

\* C14 witness: the second query of a session returned after its callback
\* had written the transcript and finished.
C14_Witness ==
    /\ Ended /\ result.outcome = "ok"
    /\ calls.save_done = 1 /\ calls.save_writes = 1
    /\ session_state.query_count = 2

\* C15: after a completed query, last_response and the response of the
\* transcript entry are the display text, which is the concatenation of
\* the fragments in arrival order, put through the processor when there
\* is one.
C15_LastResponseIsDisplayText ==
    (Ended /\ result.outcome = "ok") =>
        /\ session_state.last_response = display_text
        /\ LastEntry.response = display_text
        /\ IF streamer.harmony_processor
           THEN \E metadata \in agent.metadata :
                    display_text = harmony_display(Join(response_text), metadata)
           ELSE display_text = Join(response_text)

\* C15 witness: two visible fragments, printed as they came in STREAMING
\* state, are stored as one text.
C15_Witness ==
    /\ Ended /\ result.outcome = "ok"
    /\ renderer.output_state = STREAMING
    /\ response_text = << <<"a">>, <<"a">> >>
    /\ calls.fragments_printed = 2 /\ calls.render_final_response = 0
    /\ session_state.last_response = <<"a", "a">>

FinalKinds == {"rich_markdown", "plain_text"}

C17_OutputStateFixed ==
    /\ renderer.output_state \in {BUFFERING, STREAMING}
    /\ renderer.output_state = BUFFERING
           <=> (renderer.console \/ renderer.harmony_processor)

\* C17 witness: a renderer given only a processor went through header,
\* fragments and final render of a second query in BUFFERING state.
C17_Witness ==
    /\ Ended /\ counts.queries = 2
    /\ renderer.harmony_processor /\ ~renderer.console
    /\ renderer.output_state = BUFFERING
    /\ response_text # <<>> /\ calls.render_final_response = 1

BeforeTranscript ==
    {"stream", "event", "call", "harmony", "render", "usage", "await_event",
     "await_thinking", "await_executor", "await_thinking_call"}

\* C18: query_count grows by one in a query that reaches the transcript
\* step, stays as it was in a query that fails or is cancelled before it,
\* and the n-th entry of the transcript carries the number n.
C18_QueryCount ==
    /\ session_state.query_count - pre.session_state.query_count \in {0, 1}
    /\ (Ended /\ result.outcome = "ok") => Counted
    /\ (Ended /\ raised \in BeforeTranscript) =>
           session_state.query_count = pre.session_state.query_count
    /\ Len(session_state.conversation_markdown) = session_state.query_count
    /\ \A n \in DOMAIN session_state.conversation_markdown :
           session_state.conversation_markdown[n].query_num = n

\* C18 witness: after a failed query left the count at 0, the next query
\* completed as number 1.
C18_Witness ==
    /\ Ended /\ result.outcome = "ok" /\ counts.queries = 2
    /\ pre.session_state.query_count = 0
    /\ session_state.query_count = 1
    /\ LastEntry.query_num = 1

\* C19: a query whose usage extraction gives None leaves the running
\* totals and the last-seen cumulative totals as they were, is counted,
\* gets a transcript entry without token metadata, and returns usage None.
C19_NoUsageNoUpdate ==
    /\ (pc = "usage_recorded" /\ ~usage_info.some) =>
           /\ token_tracker = pre.token_tracker
           /\ session_state =
                  [pre.session_state EXCEPT
                      !.last_response = session_state.last_response]
    /\ (pc \in {"await_save", "audio"} /\ ~usage_info.some) =>
           /\ token_tracker = pre.token_tracker
           /\ streamer.total_input_tokens = pre.total_input_tokens
           /\ streamer.total_output_tokens = pre.total_output_tokens
           /\ session_state.last_accumulated_input
                  = pre.session_state.last_accumulated_input
           /\ session_state.last_accumulated_output
                  = pre.session_state.last_accumulated_output
           /\ Counted
           /\ ~LastEntry.has_tokens
    /\ (Ended /\ result.outcome = "ok" /\ ~LastEntry.has_tokens) =>
           ~result.usage.some

\* C19 witness: a query without usage completed in a session whose totals
\* and last-seen cumulative totals were above zero.
C19_Witness ==
    /\ Ended /\ result.outcome = "ok" /\ ~result.usage.some
    /\ ~LastEntry.has_tokens
    /\ pre.token_tracker.total_input_tokens > 0
    /\ pre.session_state.last_accumulated_input > 0
    /\ token_tracker = pre.token_tracker

\* C20: the text collected from the first event of a stream is the one
\* the fixed priority picks: a plain string is its own text; a mapping is
\* parsed by its keys, the nested contentBlockDelta text before the "text"
\* key, whatever else it holds; an object gives its data before its delta,
\* and its delta before its text attribute.
C20_ParsePriority ==
    (/\ agent.stream_async /\ first_token_received
     /\ ~(raised = "event" /\ response_text = <<>>)) =>
        LET e == event
            chosen ==
                IF e.shape = "str" THEN e.text
                ELSE IF e.shape = "mapping" /\ e.nested.some THEN e.nested
                ELSE IF e.shape = "mapping" THEN e.text
                ELSE IF e.data.some THEN e.data
                ELSE IF e.delta.some THEN e.delta
                ELSE e.text
        IN  (chosen.some /\ chosen.val # <<>>) =>
                /\ response_text # <<>>
                /\ response_text[1] = chosen.val

\* C20 witness: the first event of a stream had both data and delta, and
\* the text collected from it is the data text.
C20_Witness ==
    /\ pc = "await_event" /\ first_token_received
    /\ event.shape = "object" /\ event.data.some /\ event.delta.some
    /\ response_text = << event.data.val >>
    /\ event.data.val # event.delta.val

C22_ZeroUsageIsNone ==
    /\ usage_info.some =>
           usage_info.input_tokens + usage_info.output_tokens > 0
    /\ pc = "rendered" =>
           \A payload \in agent.payloads :
               LET usage_result == extract_token_usage(payload)
               IN  /\ (/\ payload.input \in {"0"} \cup Uncoercible
                        /\ payload.output \in {"0"} \cup Uncoercible) =>
                           ~usage_result.some
                   /\ (/\ payload.kind # "none"
                        /\ payload.input \in Numerals \ {"0"}
                        /\ payload.output = "0") =>
                           /\ usage_result.some
                           /\ ToString(usage_result.input_tokens) = payload.input
                           /\ usage_result.output_tokens = 0
                   /\ (/\ payload.kind # "none"
                        /\ payload.input = "0"
                        /\ payload.output \in Numerals \ {"0"}) =>
                           /\ usage_result.some
                           /\ usage_result.input_tokens = 0
                           /\ ToString(usage_result.output_tokens) = payload.output

\* C22 witness: the first query of a session read a cumulative payload
\* with an input count only and recorded it with output 0.
C22_Witness ==
    /\ pc = "usage_recorded" /\ counts.queries = 1
    /\ UsagePayloads \subseteq agent.payloads
    /\ usage_info.some
    /\ usage_info.input_tokens = 1 /\ usage_info.output_tokens = 0

\* The raw text holds no channel tag.
NoTags ==
    \A i \in DOMAIN full_response :
        \A c \in ChannelNames :
            full_response[i] \notin {OpenTag(c), CloseTag(c)}

\* C23 as stated: when the stream is complete and the raw text holds no
\* channel tag, the processor gives the raw text back for every response
\* without tokens, or with tokens that cannot be parsed, with detailed mode
\* on or off.
C23_PlainTextRoundTrip ==
    (pc = "stream_complete" /\ streamer.harmony_processor /\ NoTags) =>
        \A metadata \in agent.metadata :
            metadata.tokens # "parsed" =>
                harmony_display(full_response, metadata) = full_response

AfterRender == {"rendered", "usage_recorded", "await_save", "audio"}

\* C25: for an agent without stream_async, once the blocking call has
\* returned the indicator is told to stop, and no response text is rendered
\* before it has been awaited to its end; the response is printed by exactly
\* one call of render_final_response, as the final content alone with no
\* separator and no fragment, in STREAMING and in BUFFERING state.
C25_NonStreamingRender ==
    ~agent.stream_async =>
        /\ ~first_token_received
        /\ calls.fragments_printed = 0
        /\ calls.render_final_response <= 1
        /\ pc \in {"await_thinking_call", "stream_complete"} => stop_thinking
        /\ pc = "stream_complete" => thinking_task \in {"None", "done"}
        /\ (pc \in AfterRender /\ raised = "") =>
               calls.render_final_response = 1
        /\ \A i \in DOMAIN terminal :
               /\ terminal[i].what \notin {"separator", "fragment"}
               /\ terminal[i].what \in FinalKinds =>
                      /\ thinking_task \in {"None", "done"}
                      /\ terminal[i].text = display_text
                      /\ \A j \in DOMAIN terminal :
                             terminal[j].what \in FinalKinds => j = i
                      /\ \A j \in 1..(i - 1) :
                             terminal[j].what = "frame" =>
                                 \E k \in (j + 1)..(i - 1) :
                                     terminal[k].what = "clear"

\* C25 witness: a non-streaming agent of a renderer with a console (the
\* BUFFERING state) whose indicator repainted, was cleared and awaited, and
\* whose response was then rendered by the one call.
C25_Witness ==
    /\ ~agent.stream_async /\ renderer.output_state = BUFFERING
    /\ pc = "rendered" /\ thinking_task = "done"
    /\ calls.render_final_response = 1
    /\ Len(terminal) >= 3
    /\ terminal[Len(terminal) - 2].what = "frame"
    /\ terminal[Len(terminal) - 1].what = "clear"
    /\ terminal[Len(terminal)].what = "rich_markdown"

\* The output of a query that follows the response: the metrics line and
\* the error line.
LaterKinds == {"metrics", "error"}

\* C26 as stated: when the indicator was started, every later line of the
\* query (metrics line, error line) is written after the indicator was
\* stopped and had made its clearing write, no repaint follows such a line,
\* and the indicator never terminates with a repaint that no clearing write
\* follows.
C26_ClearedBeforeLaterOutput ==
    streamer.show_thinking =>
        /\ \A i \in DOMAIN terminal :
               terminal[i].what \in LaterKinds =>
                   /\ stop_thinking /\ thinking_task = "done"
                   /\ \E j \in 1..(i - 1) : terminal[j].what = "clear"
                   /\ \A j \in (i + 1)..Len(terminal) :
                          terminal[j].what # "frame"
        /\ IndicatorOver =>
               \A i \in DOMAIN terminal :
                   terminal[i].what = "frame" =>
                       \E j \in (i + 1)..Len(terminal) :
                           terminal[j].what = "clear"

\* C27 as stated: after any sequence of completed queries the streamer's
\* own total_input_tokens and total_output_tokens equal the token tracker's
\* totals, also for an agent that reports cumulative usage.
C27_StreamerTotalsMatchTracker ==
    (Ended /\ result.outcome = "ok"
        /\ session_state.query_count = counts.queries) =>
        /\ streamer.total_input_tokens = token_tracker.total_input_tokens
        /\ streamer.total_output_tokens = token_tracker.total_output_tokens

\* C28: whatever mix of per-query and cumulative usage the agent reports,
\* cumulative totals that decrease included, each total of the token
\* tracker is non-negative and at least the session's last-seen cumulative
\* total of the same counter.
C28_TrackerAboveLastSeen ==
    /\ session_state.last_accumulated_input >= 0
    /\ session_state.last_accumulated_output >= 0
    /\ token_tracker.total_input_tokens
           >= session_state.last_accumulated_input
    /\ token_tracker.total_output_tokens
           >= session_state.last_accumulated_output

\* C28 witness: a cumulative reading with a lowered input counter and a
\* raised output counter was recorded, and its negative input delta was
\* added to the tracker.
C28_Witness ==
    /\ pc = "usage_recorded" /\ hist.readings = 2
    /\ hist.delta_input < 0 /\ hist.delta_output > 0
    /\ TrackerGain.input = hist.delta_input
    /\ token_tracker.total_input_tokens
           = session_state.last_accumulated_input

\* What the orchestrator itself prints for a query.
OrchestratorKinds == ContentKinds \cup {"header", "metrics", "error"}

\* C29: sys.stdout is the StringIO buffer only with suppression on and only
\* while the coroutine waits for the next event of the stream; so every
\* line the orchestrator prints (header, fragments, separator, final
\* render, metrics line, error line) goes to the original stream, and
\* sys.stdout is the original stream once the streaming loop has ended,
\* whether by exhaustion, an exception or a cancellation.
C29_BufferOnlyWhileWaiting ==
    /\ sys_stdout = "buffer" =>
           /\ streamer.suppress_agent_stdout /\ agent.stream_async
           /\ pc = "await_event"
    /\ \A i \in DOMAIN terminal :
           terminal[i].what \in OrchestratorKinds => terminal[i].to = "stdout"
    /\ (streamer.suppress_agent_stdout /\ agent.stream_async
        /\ pc = "await_event" /\ raised = "") => sys_stdout = "buffer"

\* C29 witness: with suppression on, a stream that had a fragment printed
\* to the original stream was cancelled while the buffer was installed, and
\* sys.stdout is the original stream in the finally clause.
C29_Witness ==
    /\ streamer.suppress_agent_stdout /\ agent.stream_async
    /\ pc = "finally" /\ pending = "cancelled" /\ raised = "await_event"
    /\ calls.fragments_printed > 0
    /\ \E i \in DOMAIN terminal :
           terminal[i].what = "fragment" /\ terminal[i].to = "stdout"
    /\ sys_stdout = "stdout"

\* The text of the write that has just been made, and whether it was
\* passed to the real stdout.
Written == SubSeq(stdout_filter'.buffer, Len(stdout_filter.buffer) + 1,
                  Len(stdout_filter'.buffer))
PassedThrough == stdout_filter'.real_stdout # stdout_filter.real_stdout

\* The written text has characters in a line that matches a prompt
\* pattern: in the last line of all text so far, or in the line before it
\* or the line break that ends that line.
PartOfPrompt ==
    LET buffer == stdout_filter'.buffer
    IN  \E pattern \in prompt_patterns :
            \/ /\ search(pattern, last_line(buffer))
               /\ Written[Len(Written)] # "\n"
            \/ /\ search(pattern, prev_line(buffer))
               /\ \E i \in DOMAIN Written : Written[i] = "\n"

\* C30 as stated: every non-empty write goes to exactly one destination,
\* the real stdout when the last line or the line before it of all text
\* written so far matches a prompt pattern and the suppressed buffer
\* otherwise; a text passed through is not in get_suppressed_output; and a
\* text that is not part of a prompt is never passed through.
C30_OneDestination ==
    [][ stdout_filter'.buffer # stdout_filter.buffer =>
          /\ IF looks_like_prompt(stdout_filter'.buffer)
             THEN /\ stdout_filter'.real_stdout
                         = stdout_filter.real_stdout \o Written
                  /\ get_suppressed_output(stdout_filter')
                         = get_suppressed_output(stdout_filter)
             ELSE /\ stdout_filter'.real_stdout = stdout_filter.real_stdout
                  /\ get_suppressed_output(stdout_filter')
                         = get_suppressed_output(stdout_filter) \o Written
          /\ PassedThrough => PartOfPrompt ]_vars

\* The first two sentences of C30 alone.
C30_RoutedByPattern ==
    [][ stdout_filter'.buffer # stdout_filter.buffer =>
          IF looks_like_prompt(stdout_filter'.buffer)
          THEN /\ stdout_filter'.real_stdout
                      = stdout_filter.real_stdout \o Written
               /\ get_suppressed_output(stdout_filter')
                      = get_suppressed_output(stdout_filter)
          ELSE /\ stdout_filter'.real_stdout = stdout_filter.real_stdout
               /\ get_suppressed_output(stdout_filter')
                      = get_suppressed_output(stdout_filter) \o Written ]_vars

====
